---- MODULE Spec2Model ----
\* Verification model of opensea-stream (src/src/lib.rs, src/src/main.rs):
\* client construction, the subscription facade over the transport engine
\* (phyllo) and the broadcast fan-out to consumer loops.
EXTENDS Integers, Sequences, FiniteSets, TLC

VARIABLES
    cl,       \* client(): position, inputs, URL under construction, step log
    eng,      \* transport engine as seen through SocketHandler::channel
    chans,    \* per topic: join state and the broadcast channel behind it
    rx,       \* receive handles (broadcast::Receiver) by handle id
    jh,       \* join handles (ChannelHandler) by handle id
    cons,     \* consumer loops, one per receive handle
    call      \* what the last facade call returned to its caller

vars == <<cl, eng, chans, rx, jh, cons, call>>

\* ---------------------------------------------------------------- bounds
MaxTokenLen == 2
BufCap == 1
MaxMsgs == 2
MaxCalls == 2

\* ------------------------------------------------- client(): lib.rs 75-79
Networks == {"Mainnet", "Testnet"}

\* Characters of a caller-supplied token. "token" stands for the five letters
\* of the parameter name, so a token may itself spell "&token=...".
TokenChars == {"token", "x", "&", "=", "%", "+", "2", "6"}

RECURSIVE SeqsUpTo(_, _)
SeqsUpTo(S, n) ==
    IF n = 0 THEN {<<>>}
    ELSE LET shorter == SeqsUpTo(S, n - 1)
         IN  shorter \cup {Append(s, c) : s \in {t \in shorter : Len(t) = n - 1}, c \in S}

Tokens == SeqsUpTo(TokenChars, MaxTokenLen)

\* application/x-www-form-urlencoded byte serialisation of one character
EncodeChar(c) ==
    CASE c = "&" -> <<"%", "2", "6">>
      [] c = "=" -> <<"%", "3", "D">>
      [] c = "%" -> <<"%", "2", "5">>
      [] c = "+" -> <<"%", "2", "B">>
      [] c = " " -> <<"+">>
      [] OTHER   -> <<c>>

RECURSIVE Encode(_)
Encode(s) == IF s = <<>> THEN <<>> ELSE EncodeChar(Head(s)) \o Encode(Tail(s))

HexTable == {<<<<"2", "6">>, "&">>, <<<<"3", "D">>, "=">>, <<<<"2", "5">>, "%">>,
             <<<<"2", "B">>, "+">>}

RECURSIVE Decode(_)
Decode(s) ==
    IF s = <<>> THEN <<>>
    ELSE IF Head(s) = "%" /\ Len(s) >= 3
            /\ \E e \in HexTable : e[1] = <<s[2], s[3]>>
         THEN LET e == CHOOSE e \in HexTable : e[1] = <<s[2], s[3]>>
              IN  <<e[2]>> \o Decode(SubSeq(s, 4, Len(s)))
         ELSE <<IF Head(s) = "+" THEN " " ELSE Head(s)>> \o Decode(Tail(s))

\* Url::query_pairs_mut().append_pair(name, value)
append_pair(query, name, value) ==
    (IF query = <<>> THEN <<>> ELSE query \o <<"&">>)
        \o Encode(name) \o <<"=">> \o Encode(value)

\* Url::query_pairs(): split at "&", drop empty segments, split each segment at
\* its first "=", percent-decode both halves.
RECURSIVE Split(_, _)
Split(s, sep) ==
    IF \A i \in 1..Len(s) : s[i] # sep THEN <<s>>
    ELSE LET i == CHOOSE i \in 1..Len(s) : s[i] = sep /\ \A j \in 1..(i - 1) : s[j] # sep
         IN  <<SubSeq(s, 1, i - 1)>> \o Split(SubSeq(s, i + 1, Len(s)), sep)

PairOf(seg) ==
    IF \A i \in 1..Len(seg) : seg[i] # "=" THEN <<Decode(seg), <<>>>>
    ELSE LET i == CHOOSE i \in 1..Len(seg) : seg[i] = "=" /\ \A j \in 1..(i - 1) : seg[j] # "="
         IN  <<Decode(SubSeq(seg, 1, i - 1)), Decode(SubSeq(seg, i + 1, Len(seg)))>>

query_pairs(query) ==
    LET segs == Split(query, "&")
        keep == SelectSeq(segs, LAMBDA g : g # <<>>)
    IN  [i \in 1..Len(keep) |-> PairOf(keep[i])]

\* Url::from(network): the base endpoint of the network, no query attached
UrlFrom(network) == [host |-> network, query |-> <<>>]

\* line 77: the one append of the token (first a variant that appends it twice)
ClientAppendTwice(url, token) ==
    [url EXCEPT !.query = append_pair(append_pair(url.query, <<"token">>, token),
                                      <<"token">>, token)]

ClientAppend(url, token) ==
    [url EXCEPT !.query = append_pair(url.query, <<"token">>, token)]

NoUrl == [host |-> "none", query |-> <<>>]

ClientStart(n, t) ==
    [pc |-> "start", network |-> n, token |-> t, url |-> NoUrl,
     conn |-> NoUrl, steps |-> <<>>]

ClientResolve ==
    /\ cl.pc = "start"
    /\ cl' = [cl EXCEPT !.pc = "resolved", !.url = UrlFrom(cl.network),
                        !.steps = Append(@, "resolve")]
    /\ UNCHANGED <<eng, chans, rx, jh, cons, call>>

ClientAppendToken ==
    /\ cl.pc = "resolved"
    /\ cl' = [cl EXCEPT !.pc = "appended", !.url = ClientAppend(cl.url, cl.token),
                        !.steps = Append(@, "append")]
    /\ UNCHANGED <<eng, chans, rx, jh, cons, call>>

ClientBuild ==
    /\ cl.pc = "appended"
    /\ cl' = [cl EXCEPT !.pc = "built", !.conn = cl.url,
                        !.steps = Append(@, "connect")]
    /\ UNCHANGED <<eng, chans, rx, jh, cons, call>>

ClientBuilt(n, t) ==
    [pc |-> "built", network |-> n, token |-> t,
     url |-> ClientAppend(UrlFrom(n), t), conn |-> ClientAppend(UrlFrom(n), t),
     steps |-> <<"resolve", "append", "connect">>]

\* --------------------------------------- protocol and schema as used here
\* Collection values (subscription targets); the socket is SocketHandler<Collection>,
\* so the engine keys its channels by the Collection value. main subscribes
\* to Collection::All.
Targets == {"All"}

\* Message kinds on the wire: two decodable discriminators, one of which main
\* selects, and "bad" for a body with no custom payload (malformed or unknown).
Kinds == {"collection_offer", "item_listed", "bad"}

\* ChannelBuilder<Collection>: the topic and the engine's options
Configs == {"default", "custom"}
Builders == [topic : Targets, cfg : Configs]

\* ChannelBuilder::new(collection)
ChannelBuilderNew(collection) == [topic |-> collection, cfg |-> "default"]

\* The transport's verdict on one join request
Verdicts == {"accept", "reject"}

NoRes == [ok |-> FALSE, err |-> "none"]

LiveChan(chs, t) == {i \in 1..Len(chs) : chs[i].topic = t /\ chs[i].joined}

NewChan(b) ==
    [topic |-> b.topic, joined |-> TRUE, closed |-> FALSE,
     buf |-> <<>>, tail |-> 0, wired |-> 0]

\* SocketHandler::channel(builder): one join request to the engine. A closed
\* socket or a join the transport rejects is a RegisterChannelError; a topic
\* already joined yields another receiver of the same channel.
Channel(e, chs, b, verdict) ==
    LET live == LiveChan(chs, b.topic)
        res  == IF e.sock # "open" \/ verdict = "reject"
                    THEN [ok |-> FALSE, err |-> "RegisterChannelError", ch |-> 0]
                ELSE IF live # {}
                    THEN [ok |-> TRUE, err |-> "none", ch |-> CHOOSE i \in live : TRUE]
                ELSE [ok |-> TRUE, err |-> "none", ch |-> Len(chs) + 1]
    IN  [eng   |-> [e EXCEPT !.nreq = @ + 1, !.lastOk = res.ok],
         chans |-> IF res.ok /\ res.ch = Len(chs) + 1 THEN Append(chs, NewChan(b)) ELSE chs,
         req   |-> b,
         res   |-> res]

\* ------------------------------------------------ facade: lib.rs 82-108
\* Variant of subscribe_to that asks again after a rejected join.
SubscribeToRetry(e, chs, collection, verdict) ==
    LET o == Channel(e, chs, ChannelBuilderNew(collection), verdict)
    IN  IF o.res.ok THEN o
        ELSE Channel(o.eng, o.chans, ChannelBuilderNew(collection), "accept")

subscribe_to(e, chs, collection, verdict) ==
    Channel(e, chs, ChannelBuilderNew(collection), verdict)

\* Variant of subscribe_to_with_config that keeps only the builder's topic.
SubscribeWithConfigDefaulted(e, chs, channel_builder, verdict) ==
    Channel(e, chs, ChannelBuilderNew(channel_builder.topic), verdict)

subscribe_to_with_config(e, chs, channel_builder, verdict) ==
    Channel(e, chs, channel_builder, verdict)

\* A consumer loop's record: where it is, the last item its receive handle
\* yielded and what the loop did with it, and how many messages the handle has
\* accounted for so far (given to the loop, or reported missed in a Lagged).
NoItem == [tag |-> "none", kind |-> "none", pos |-> 0]

NewCons == [pc |-> "run", item |-> NoItem, act |-> "none", told |-> 0]

GoneCons == [NewCons EXCEPT !.pc = "gone"]

DoneCons == [NewCons EXCEPT !.pc = "done"]

\* What the caller holds after a call: on Ok the pair (ChannelHandler, Receiver),
\* the receiver starting at the channel's tail; on Err nothing.
Bind(o) ==
    /\ eng' = o.eng
    /\ chans' = o.chans
    /\ call' = [ok |-> o.res.ok, err |-> o.res.err]
    /\ IF o.res.ok
       THEN /\ rx' = Append(rx, [ch |-> o.res.ch, next |-> o.chans[o.res.ch].tail,
                                 start |-> o.chans[o.res.ch].tail, st |-> "live"])
            /\ jh' = Append(jh, [ch |-> o.res.ch, st |-> "held"])
            /\ cons' = Append(cons, NewCons)
       ELSE UNCHANGED <<rx, jh, cons>>
    /\ UNCHANGED cl

SubscribeTo ==
    /\ cl.pc = "built"
    /\ eng.nreq < MaxCalls
    /\ \E c \in Targets, v \in Verdicts :
          Bind(subscribe_to(eng, chans, c, v))

SubscribeToWithConfig ==
    /\ cl.pc = "built"
    /\ eng.nreq < MaxCalls
    /\ \E b \in Builders, v \in Verdicts :
          Bind(subscribe_to_with_config(eng, chans, b, v))

\* ------------------------------------------- broadcast channel and fan-out
\* Event kinds a join asks the server for. subscribe_to takes a socket and a
\* Collection and nothing else, so the join covers every kind.
\* (Variant: a join restricted to the kinds main prints.)
JoinedEventsAsMain(collection) == {"collection_offer"}

JoinedEvents(collection) == Kinds

\* broadcast::Sender::send: append; beyond the capacity the oldest value goes.
Send(ch, msg) ==
    [ch EXCEPT !.buf = IF Len(@) + 1 > BufCap THEN Tail(Append(@, msg)) ELSE Append(@, msg),
               !.tail = @ + 1]

Item(tag, pos, kind, n) == [tag |-> tag, pos |-> pos, kind |-> kind, n |-> n]

\* broadcast::Receiver::recv for a receiver whose cursor is `next`: Lagged(n)
\* and a jump to the oldest retained value when the cursor fell behind it, else
\* the value at the cursor, else Closed once the sender is gone, else pending.
\* Two variants come first: one that skips ahead without a Lagged item, one
\* that does not advance the cursor.
RecvSilentSkip(ch, next) ==
    LET oldest == ch.tail - Len(ch.buf)
        at     == IF next < oldest THEN oldest ELSE next
    IN  IF at < ch.tail
            THEN [item |-> Item("msg", ch.buf[at - oldest + 1].pos,
                                ch.buf[at - oldest + 1].kind, 0), next |-> at + 1]
        ELSE IF ch.closed THEN [item |-> Item("closed", 0, "none", 0), next |-> next]
        ELSE [item |-> Item("pending", 0, "none", 0), next |-> next]

RecvRepeat(ch, next) ==
    LET oldest == ch.tail - Len(ch.buf)
    IN  IF next < oldest
            THEN [item |-> Item("lagged", 0, "none", oldest - next), next |-> oldest]
        ELSE IF next < ch.tail
            THEN [item |-> Item("msg", ch.buf[next - oldest + 1].pos,
                                ch.buf[next - oldest + 1].kind, 0), next |-> next]
        ELSE IF ch.closed THEN [item |-> Item("closed", 0, "none", 0), next |-> next]
        ELSE [item |-> Item("pending", 0, "none", 0), next |-> next]

Recv(ch, next) ==
    LET oldest == ch.tail - Len(ch.buf)
    IN  IF next < oldest
            THEN [item |-> Item("lagged", 0, "none", oldest - next), next |-> oldest]
        ELSE IF next < ch.tail
            THEN [item |-> Item("msg", ch.buf[next - oldest + 1].pos,
                                ch.buf[next - oldest + 1].kind, 0), next |-> next + 1]
        ELSE IF ch.closed THEN [item |-> Item("closed", 0, "none", 0), next |-> next]
        ELSE [item |-> Item("pending", 0, "none", 0), next |-> next]

\* --------------------------------------------------------- consumer loops
\* main.rs 10-26: BroadcastStream + filter_map + while let. A lagged item and a
\* message without a custom payload are skipped, the two offer kinds are
\* printed, the end of the stream ends the loop and main returns Ok.
\* Two variants come first: one that leaves the loop at a message without a
\* payload, one that goes on polling a stream that has ended.
MainStepStopOnBad(item) ==
    CASE item.tag = "closed"            -> "done"
      [] item.tag = "lagged"            -> "skip"
      [] item.kind = "bad"              -> "done"
      [] item.kind = "collection_offer" -> "yield"
      [] OTHER                          -> "skip"

MainStepSpinOnClosed(item) ==
    CASE item.tag = "closed"            -> "skip"
      [] item.tag = "lagged"            -> "skip"
      [] item.kind = "bad"              -> "skip"
      [] item.kind = "collection_offer" -> "yield"
      [] OTHER                          -> "skip"

MainStep(item) ==
    CASE item.tag = "closed"            -> "done"
      [] item.tag = "lagged"            -> "skip"
      [] item.kind = "bad"              -> "skip"
      [] item.kind = "collection_offer" -> "yield"
      [] OTHER                          -> "skip"

Sum(f) ==
    LET RECURSIVE S(_)
        S(i) == IF i = 0 THEN 0 ELSE f[i] + S(i - 1)
    IN  S(Len(f))

Wired == Sum([i \in 1..Len(chans) |-> chans[i].wired])

\* The transport delivers one message of kind k on the topic of channel i.
Publish ==
    /\ eng.sock = "open"
    /\ Wired < MaxMsgs
    /\ \E i \in 1..Len(chans), k \in Kinds :
          /\ chans[i].joined
          /\ LET ch  == [chans[i] EXCEPT !.wired = @ + 1]
                 msg == [pos |-> chans[i].tail, kind |-> k]
             IN  chans' = [chans EXCEPT ![i] =
                              IF k \in JoinedEvents(ch.topic) THEN Send(ch, msg) ELSE ch]
    /\ UNCHANGED <<cl, eng, rx, jh, cons, call>>

\* One turn of the consumer loop on receive handle h. When the loop ends, main
\* returns: the stream and its receiver are dropped with the loop's locals.
Consume(h) ==
    /\ h \in 1..Len(rx)
    /\ rx[h].st = "live"
    /\ cons[h].pc = "run"
    /\ LET r == Recv(chans[rx[h].ch], rx[h].next)
           s == MainStep(r.item)
       IN  /\ r.item.tag # "pending"
           /\ rx' = [rx EXCEPT ![h] =
                  IF s = "done" THEN [ch |-> @.ch, next |-> 0, start |-> 0, st |-> "dropped"]
                  ELSE [@ EXCEPT !.next = r.next]]
           /\ cons' = [cons EXCEPT ![h] =
                  IF s = "done" THEN DoneCons
                  ELSE [pc   |-> IF s = "failed" THEN "failed" ELSE "run",
                        item |-> [tag |-> r.item.tag, kind |-> r.item.kind, pos |-> r.item.pos],
                        act  |-> s,
                        told |-> @.told + (IF r.item.tag = "msg" THEN 1 ELSE r.item.n)]]
    /\ UNCHANGED <<cl, eng, chans, jh, call>>

\* The caller drops receive handle h.
DropReceiver ==
    \E h \in 1..Len(rx) :
        /\ rx[h].st = "live"
        /\ cons[h].pc = "run"
        /\ rx' = [rx EXCEPT ![h] = [ch |-> @.ch, next |-> 0, start |-> 0, st |-> "dropped"]]
        /\ cons' = [cons EXCEPT ![h] = GoneCons]
        /\ UNCHANGED <<cl, eng, chans, jh, call>>

\* main.rs 8: the join handle is bound to `_` and dropped unused; the channel
\* stays as it is and main goes on to read the subscription. (First a variant
\* in which the drop leaves the topic.)
DropJoinLeaves(chs, h) == [chs EXCEPT ![jh[h].ch].joined = FALSE, ![jh[h].ch].closed = TRUE]

DropJoinEffect(chs, h) == chs

DropJoin ==
    \E h \in 1..Len(jh) :
        /\ jh[h].st = "held"
        /\ jh' = [jh EXCEPT ![h].st = "dropped"]
        /\ chans' = DropJoinEffect(chans, h)
        /\ UNCHANGED <<cl, eng, rx, cons, call>>

\* lib.rs 26-27: handler.close().await, the explicit unsubscribe. The channel
\* leaves its topic and its sender goes away; every other join handle of the
\* same channel, held or already dropped, refers to a channel that is gone
\* ("stale").
CloseJoin ==
    \E h \in 1..Len(jh) :
        /\ jh[h].st = "held"
        /\ chans[jh[h].ch].joined
        /\ jh' = [g \in 1..Len(jh) |->
                     IF jh[g].ch = jh[h].ch
                     THEN [jh[g] EXCEPT !.st = IF g = h THEN "closed" ELSE "stale"]
                     ELSE jh[g]]
        /\ chans' = [chans EXCEPT ![jh[h].ch].joined = FALSE, ![jh[h].ch].closed = TRUE]
        /\ UNCHANGED <<cl, eng, rx, cons, call>>

\* The external connection closes: every channel's sender goes away and every
\* join handle still held is left pointing at a channel that is gone.
ConnClose ==
    /\ eng.sock = "open"
    /\ cl.pc = "built"
    /\ eng' = [eng EXCEPT !.sock = "closed"]
    /\ chans' = [i \in 1..Len(chans) |-> [chans[i] EXCEPT !.joined = FALSE, !.closed = TRUE]]
    /\ jh' = [g \in 1..Len(jh) |->
                 IF jh[g].st = "held" THEN [jh[g] EXCEPT !.st = "stale"] ELSE jh[g]]
    /\ UNCHANGED <<cl, rx, cons, call>>

\* ------------------------------------------------------- specifications
Idle ==
    /\ eng = [sock |-> "open", nreq |-> 0, lastOk |-> FALSE]
    /\ chans = <<>>
    /\ rx = <<>>
    /\ jh = <<>>
    /\ cons = <<>>
    /\ call = NoRes

\* main.rs 6: the client is built for Mainnet before anything is subscribed.
Init ==
    /\ cl = ClientBuilt("Mainnet", <<"x">>)
    /\ Idle

Next ==
    \/ SubscribeTo
    \/ SubscribeToWithConfig
    \/ Publish
    \/ \E h \in 1..MaxCalls : Consume(h)
    \/ DropReceiver
    \/ DropJoin
    \/ CloseJoin
    \/ ConnClose

Spec == Init /\ [][Next]_vars

\* The program of main.rs: one subscribe_to (line 8) whose join handle is
\* dropped, then the consumer loop on the one receive handle, which as a task
\* keeps polling its stream; the transport delivers messages and may close.
MainNext ==
    \/ eng.nreq = 0 /\ SubscribeTo
    \/ DropJoin
    \/ Publish
    \/ Consume(1)
    \/ ConnClose

MainSpec == Init /\ [][MainNext]_vars /\ WF_vars(Consume(1))

\* Client construction alone, over every network and token.
InitClient ==
    /\ cl \in {ClientStart(n, t) : n \in Networks, t \in Tokens}
    /\ Idle

NextClient == ClientResolve \/ ClientAppendToken \/ ClientBuild

SpecClient == InitClient /\ [][NextClient]_vars

\* ----------------------------------------------------------- properties
Handles == 1..Len(rx)

Live(h) == rx[h].st = "live" /\ cons[h].pc = "run"

ChanOf(h) == chans[rx[h].ch]

Oldest(ch) == ch.tail - Len(ch.buf)

\* C1: subscribe_to and subscribe_to_with_config never filter by event kind.
\* Every message the transport delivers on a joined topic, whatever its kind,
\* enters the topic's broadcast channel (tail = wired) and is thereby offered to
\* every attached receive handle (each cursor lies between its start and the
\* tail); a consumer prints a message only after its handle has yielded it, and
\* only main's own selection decides that.
C1_NoEventFilter ==
    /\ \A i \in 1..Len(chans) : chans[i].tail = chans[i].wired
    /\ \A h \in Handles : Live(h) =>
          /\ rx[h].start <= rx[h].next
          /\ rx[h].next <= ChanOf(h).tail
          /\ cons[h].act = "yield" =>
                cons[h].item.tag = "msg" /\ cons[h].item.kind = "collection_offer"

\* A handle was given a message of a kind main does not select.
C1_Witness ==
    \E h \in Handles :
        /\ Live(h)
        /\ cons[h].item.tag = "msg"
        /\ cons[h].item.kind = "item_listed"
        /\ cons[h].act = "skip"

\* C2: handles on one join are independent broadcast consumers. No channel
\* holds more than its capacity; a handle with unread messages is never kept
\* waiting, whatever the other handles do; a handle whose cursor fell behind
\* the oldest retained message gets Lagged with the exact number missed on its
\* next receive; and every position between a handle's start and its cursor was
\* either given to it or counted in a Lagged it was given.
C2_LagReported ==
    /\ \A i \in 1..Len(chans) : Len(chans[i].buf) <= BufCap
    /\ \A h \in Handles : Live(h) =>
          LET ch == ChanOf(h)
              r  == Recv(ch, rx[h].next)
          IN  /\ cons[h].told = rx[h].next - rx[h].start
              /\ rx[h].next < ch.tail => r.item.tag \in {"msg", "lagged"}
              /\ rx[h].next < Oldest(ch) =>
                    /\ r.item.tag = "lagged"
                    /\ r.item.n = Oldest(ch) - rx[h].next
                    /\ r.next = Oldest(ch)

\* One handle never read and was then told it lagged, while another handle of
\* the same channel has received everything delivered.
C2_Witness ==
    \E h1 \in Handles, h2 \in Handles :
        /\ h1 # h2 /\ Live(h1) /\ Live(h2)
        /\ rx[h1].ch = rx[h2].ch
        /\ cons[h1].item.tag = "lagged"
        /\ cons[h2].item.tag = "msg"
        /\ rx[h2].next = ChanOf(h2).tail
        /\ rx[h2].start = 0
        /\ ChanOf(h2).tail > BufCap

\* A step in which the loop on handle h took an item from its handle.
Took(h) == Live(h) /\ cons'[h] # cons[h] /\ cons'[h].pc # "gone"

C4_OnlyCloseLeaves ==
    [][/\ \A i \in 1..Len(chans) :
            (chans[i].joined /\ ~chans'[i].joined) =>
                \/ \E h \in 1..Len(jh) :
                      jh[h].ch = i /\ jh[h].st = "held" /\ jh'[h].st = "closed"
                \/ eng.sock = "open" /\ eng'.sock = "closed"
       /\ \A h \in Handles :
            (rx[h].st = "live" /\ rx'[h].st = "dropped") =>
                /\ chans' = chans
                /\ \A g \in Handles \ {h} : rx'[g] = rx[g] /\ cons'[g] = cons[g]
       /\ \A h \in 1..Len(jh) :
            (jh[h].st = "held" /\ jh'[h].st = "dropped") =>
                chans' = chans /\ rx' = rx /\ cons' = cons]_vars

\* Both handles of one subscription are dropped, the channel is still joined and
\* another handle of it has been given a message.
C4_Witness ==
    \E h \in Handles, g \in Handles :
        /\ h # g
        /\ jh[h].st = "dropped" /\ jh[g].st = "dropped"
        /\ cons[h].pc = "gone"
        /\ rx[g].ch = rx[h].ch
        /\ chans[rx[g].ch].joined
        /\ Live(g) /\ cons[g].item.tag = "msg"

\* C5: a facade call issues exactly one join request and hands the engine's
\* outcome to its caller as it is; when the engine answers with a
\* RegisterChannelError the caller gets that error and no handles, and nothing
\* is joined.
C5_ErrorReturned ==
    [][eng'.nreq # eng.nreq =>
          /\ eng'.nreq = eng.nreq + 1
          /\ call'.ok = eng'.lastOk
          /\ ~eng'.lastOk =>
                /\ call'.err = "RegisterChannelError"
                /\ rx' = rx /\ jh' = jh /\ cons' = cons /\ chans' = chans
          /\ eng'.lastOk => Len(rx') = Len(rx) + 1 /\ Len(jh') = Len(jh) + 1]_vars

\* A call was rejected while the socket was open, after an earlier one succeeded.
C5_Witness ==
    /\ eng.nreq = 2
    /\ eng.sock = "open"
    /\ ~call.ok /\ call.err = "RegisterChannelError"
    /\ Len(rx) = 1

\* The message under the cursor of handle h, if there is one.
AtCursor(h) ==
    LET ch == ChanOf(h)
    IN  IF rx[h].next >= Oldest(ch) /\ rx[h].next < ch.tail
        THEN ch.buf[rx[h].next - Oldest(ch) + 1]
        ELSE [pos |-> -1, kind |-> "none"]

\* C6: a message without a custom payload touches that message only. The loop
\* that takes it is handed it as one item, skips it and keeps running with its
\* cursor one further; the channel and every other handle are unchanged; and a
\* handle with a message still unread is never left waiting.
C6_BadMessageLocal ==
    /\ [](\A h \in Handles :
            (Live(h) /\ rx[h].next < ChanOf(h).tail) =>
                Recv(ChanOf(h), rx[h].next).item.tag \in {"msg", "lagged"})
    /\ [][\A h \in Handles :
            (Took(h) /\ AtCursor(h).kind = "bad") =>
                /\ cons'[h].pc = "run"
                /\ rx'[h].st = "live"
                /\ rx'[h].next = rx[h].next + 1
                /\ cons'[h].item.tag = "msg" /\ cons'[h].item.kind = "bad"
                /\ cons'[h].act = "skip"
                /\ chans' = chans
                /\ \A g \in Handles \ {h} : rx'[g] = rx[g] /\ cons'[g] = cons[g]]_vars

\* One handle was last given a malformed message and still has the next one to
\* read, while the other handle of the channel has been given that next, valid
\* message.
C6_Witness ==
    \E h1 \in Handles, h2 \in Handles :
        /\ h1 # h2 /\ Live(h1) /\ Live(h2)
        /\ rx[h1].ch = rx[h2].ch
        /\ cons[h1].item.tag = "msg" /\ cons[h1].item.kind = "bad"
        /\ AtCursor(h1).kind = "collection_offer"
        /\ cons[h2].item.tag = "msg" /\ cons[h2].item.kind = "collection_offer"
        /\ cons[h2].item.pos = cons[h1].item.pos + 1
        /\ cons[h2].act = "yield"

\* C7: once the connection has closed and the sender of a channel is gone, a
\* receive handle never leaves its reader waiting (it yields what is retained,
\* then the closure), the consumer loop of main reaches its end (main returns
\* Ok) and no loop ever ends by an error.
C7_ClosureEndsLoop ==
    /\ [](\A h \in Handles : cons[h].pc # "failed")
    /\ [](\A h \in Handles :
            (Live(h) /\ ChanOf(h).closed) =>
                Recv(ChanOf(h), rx[h].next).item.tag \in {"msg", "lagged", "closed"})
    /\ \A h \in 1..MaxCalls :
          (h \in Handles /\ Live(h) /\ ChanOf(h).closed)
              ~> (h \in Handles /\ cons[h].pc \in {"done", "gone"})

\* The connection has closed after messages were delivered and main's loop has
\* ended normally.
C7_Witness ==
    /\ eng.sock = "closed"
    /\ \E h \in Handles :
          cons[h].pc = "done" /\ chans[rx[h].ch].closed /\ chans[rx[h].ch].tail > BufCap

\* The query of the URL a finished client() handed to the connection attempt
ConnPairs == query_pairs(cl.conn.query)

TokenPairs == {i \in 1..Len(ConnPairs) : ConnPairs[i][1] = <<"token">>}

\* C8: client() resolves the endpoint, appends the token, then attempts the
\* connection, in that order and once each; the URL handed to the connection
\* attempt carries exactly one `token` parameter and its value is the token.
C8_TokenOnce ==
    /\ \E n \in 0..3 : cl.steps = SubSeq(<<"resolve", "append", "connect">>, 1, n)
    /\ cl.pc # "built" => cl.conn = NoUrl
    /\ cl.pc = "built" =>
          /\ cl.steps = <<"resolve", "append", "connect">>
          /\ cl.conn.host = cl.network
          /\ Cardinality(TokenPairs) = 1
          /\ \A i \in TokenPairs : ConnPairs[i][2] = cl.token

\* A client was built from a token that contains the query delimiters.
C8_Witness ==
    /\ cl.pc = "built"
    /\ cl.network = "Testnet"
    /\ cl.token = <<"&", "token">>

\* C10: subscribe_to_with_config hands the caller's builder to the engine as it
\* is and returns what the engine returns, and subscribe_to(target) does what
\* subscribe_to_with_config does with ChannelBuilder::new(target): in every
\* reachable state, for every target, builder and transport verdict, the same
\* single request, the same result, the same engine state.
C10_PassThrough ==
    \A v \in Verdicts :
        /\ \A b \in Builders :
              LET o == subscribe_to_with_config(eng, chans, b, v)
                  e == Channel(eng, chans, b, v)
              IN  /\ o.req = b
                  /\ o.res = e.res
                  /\ o.eng = e.eng /\ o.chans = e.chans
                  /\ o.eng.nreq = eng.nreq + 1
        /\ \A c \in Targets :
              LET o == subscribe_to(eng, chans, c, v)
                  w == subscribe_to_with_config(eng, chans, ChannelBuilderNew(c), v)
              IN  o = w /\ o.eng.nreq = eng.nreq + 1

\* Calls were made on an open and then closed connection: one succeeded, a
\* later one failed.
C10_Witness ==
    /\ eng.sock = "closed"
    /\ eng.nreq = 2
    /\ Len(rx) = 1
    /\ ~call.ok
====
